---- MODULE Spec2Model ----
(***************************************************************************)
(* A model of course-description-merged: the scraper that resolves the     *)
(* degrees of config/degrees.json, discovers their yearly structure pages, *)
(* scrapes every teaching of every year and writes one document per        *)
(* (degree, year) plus an index.                                           *)
(*                                                                         *)
(* Strings are TLA+ strings; Len, SubSeq and \o act on them character by   *)
(* character.  Every string of the model is ASCII, so that the byte        *)
(* offsets of str::find and the character offsets of the substring crate   *)
(* coincide, as they do on the pages the program is run on.                *)
(***************************************************************************)
EXTENDS Integers, Sequences, FiniteSets, TLC

VARIABLES
    title,       \* teaching_title of the page under extraction
    desc,        \* full_description of the page under extraction
    ext,         \* outcome of get_desc_teaching_page's extraction (status "none" before)
    now,         \* the local system clock: [year, month]
    pc,          \* where write_index_and_degrees is
    cause,       \* what the run panicked on ("none" while it has not)
    seeds,       \* the predegrees read from config/degrees.json
    ri,          \* to_degrees: the number of predegrees consumed
    degs,        \* the Vec<Degree> built so far
    probes,      \* every GET issued by get_degree_structure_urls, in order
    faults,      \* transport and filesystem failures injected so far
    di,          \* the index in degs of the degree being analysed and written
    pending,     \* analyze_degree: the years of year_urls not yet visited
    res,         \* analyze_degree: the map year -> document collected so far
    cur,         \* analyze_year_with_error: the year under analysis
    analysed,    \* analyze_degree: its calls of analyze_year that returned, in order
    entries,     \* analyze_and_write_degree: the sorted entries left to write
    acc,         \* analyze_and_write_degree: the fold's accumulator
    frags,       \* the index fragments of the degrees written so far
    written      \* every fs::write attempted, in order

evars == <<title, desc, ext>>
pvars == <<now, pc, cause, seeds, ri, degs, probes, faults, di, pending, res, cur,
           analysed, entries, acc, frags, written>>
vars == <<evars, pvars>>

-----------------------------------------------------------------------------
(* Option<usize>::None of str::find *)
None == -1

Min(S) == CHOOSE x \in S : \A y \in S : x <= y

(* str::find: the 0-based offset of the first occurrence, or None *)
Find(s, p) ==
    LET hits == {k \in 0..(Len(s) - Len(p)) : SubSeq(s, k + 1, k + Len(p)) = p}
    IN  IF hits = {} THEN None ELSE Min(hits)

(* str::contains *)
Contains(s, p) == Find(s, p) # None

(* Substring::substring of the substring crate: "" when end <= start, else  *)
(* the characters start..end, both offsets clamped to the string's length.  *)
Substring(s, start, end) ==
    IF end <= start THEN ""
    ELSE LET a == IF start < Len(s) THEN start ELSE Len(s)
             b == IF end < Len(s) THEN end ELSE Len(s)
         IN  SubSeq(s, a + 1, b)

IsSpace(c) == c \in {" ", "\n", "\t", "\r"}

RECURSIVE TrimStart(_)
TrimStart(s) ==
    IF Len(s) > 0 /\ IsSpace(SubSeq(s, 1, 1))
    THEN TrimStart(SubSeq(s, 2, Len(s)))
    ELSE s

RECURSIVE TrimEnd(_)
TrimEnd(s) ==
    IF Len(s) > 0 /\ IsSpace(SubSeq(s, Len(s), Len(s)))
    THEN TrimEnd(SubSeq(s, 1, Len(s) - 1))
    ELSE s

(* str::trim *)
Trim(s) == TrimEnd(TrimStart(s))

(* str::split('\n'): the pieces between line breaks, empty pieces included *)
RECURSIVE Split(_)
Split(s) ==
    LET k == Find(s, "\n")
    IN  IF k = None THEN <<s>>
        ELSE <<SubSeq(s, 1, k)>> \o Split(SubSeq(s, k + 2, Len(s)))

(* Itertools::join *)
RECURSIVE Join(_, _)
Join(items, sep) ==
    IF items = <<>> THEN ""
    ELSE IF Len(items) = 1 THEN items[1]
    ELSE items[1] \o sep \o Join(Tail(items), sep)

(* str::replace: every non-overlapping occurrence, left to right *)
RECURSIVE StrReplace(_, _, _)
StrReplace(s, from, to) ==
    LET k == Find(s, from)
    IN  IF k = None THEN s
        ELSE SubSeq(s, 1, k) \o to
             \o StrReplace(SubSeq(s, k + Len(from) + 1, Len(s)), from, to)

-----------------------------------------------------------------------------
(* teachings.rs *)

(* The entries of the DESC_END_MARKER table in the order they are written. *)
DESC_END_MARKER ==
    << [pattern |-> "Numerical Computing", marker |-> "Teaching"],
       [pattern |-> "History of Informatics", marker |-> "Office"],
       [pattern |-> "*", marker |-> "Readings"] >>

(* The table is a HashMap: iter() visits the entries in an order fixed by   *)
(* the random hash seed the table is built with, any permutation of them.   *)
HashOrders ==
    {o \in [1..Len(DESC_END_MARKER) -> 1..Len(DESC_END_MARKER)] :
        \A a, b \in DOMAIN o : a # b => o[a] # o[b]}

(* DESC_END_MARKER.iter() under the iteration order `order` *)
MarkerIter(order) == [k \in DOMAIN order |-> DESC_END_MARKER[order[k]]]

(* DESC_END_MARKER.get(key): <<marker>> for Some and <<>> for None *)
MarkerGet(key) ==
    LET hits == {k \in DOMAIN DESC_END_MARKER : DESC_END_MARKER[k].pattern = key}
    IN  IF hits = {} THEN <<>> ELSE <<DESC_END_MARKER[Min(hits)].marker>>

(* .iter().find(|(pattern, _)| teaching_title.contains(pattern)): the first *)
(* entry in iteration order whose pattern occurs in the title, wildcard     *)
(* entry included.  The Option is <<entry>> for Some and <<>> for None.     *)
FindEntry(teaching_title, order) ==
    LET it == MarkerIter(order)
        hits == {k \in DOMAIN it : Contains(teaching_title, it[k].pattern)}
    IN  IF hits = {} THEN <<>> ELSE <<it[Min(hits)]>>

(* the closure `backup`: the wildcard's marker looked up in the description *)
Backup(full_description) ==
    LET marker == MarkerGet("*")
    IN  IF marker = <<>> THEN None ELSE Find(full_description, marker[1])

(* `f`: the end offset, or None *)
EndOffset(teaching_title, full_description, order) ==
    LET e == FindEntry(teaching_title, order)
    IN  IF e # <<>>
        THEN LET k == Find(full_description, e[1].marker)
             IN  IF k = None THEN Len(full_description) ELSE k
        ELSE Backup(full_description)

(* A variant of StartOffset that starts the slice after the start marker:   *)
(* C5 must tell it from StartOffset.                                        *)
StartOffsetPastMarker(full_description) ==
    LET k == Find(full_description, "Learning outcomes")
    IN  IF k = None THEN Len(full_description) ELSE k + Len("Learning outcomes")

(* `i`: the start offset *)
StartOffset(full_description) ==
    LET k == Find(full_description, "Learning outcomes")
    IN  IF k = None THEN Len(full_description) ELSE k

(* The fixed back-off subtracted from the end offset *)
BackOff == 2

(* .split('\n').map(str::trim).filter(|item| !item.is_empty()).join("\n\n") *)
Normalize(raw) ==
    LET lines == Split(raw)
        trimmed == [k \in DOMAIN lines |-> Trim(lines[k])]
    IN  Join(SelectSeq(trimmed, LAMBDA l : l # ""), "\n\n")

(* `i`, `f` and the end marker `f` was looked up with *)
Offsets(teaching_title, full_description, order) ==
    [i |-> StartOffset(full_description),
     f |-> EndOffset(teaching_title, full_description, order),
     marker |-> IF FindEntry(teaching_title, order) # <<>>
                THEN <<FindEntry(teaching_title, order)[1].marker>>
                ELSE MarkerGet("*"),
     byPattern |-> FindEntry(teaching_title, order) # <<>>]

(* filtered_description of the slice `raw`; the trim is that of the format! *)
Filtered(at, wrapped, raw) ==
    at @@ [status |-> "ok", wrapped |-> wrapped, raw |-> raw,
           filtered |-> Trim(Normalize(raw))]

(* full_description.substring(i, f.ok_or(..)? - 2) and what follows it.      *)
(* `f - 2` is a usize subtraction: when f < 2 a build with overflow checks   *)
(* panics, and a build without them wraps to 2^64 - 2 + f, which exceeds     *)
(* every string length, so that the slice runs to the end of the block.      *)
(* `checks` is the build.                                                    *)
Slice(full_description, checks, at) ==
    IF at.f = None
    THEN at @@ [status |-> "err", wrapped |-> FALSE, raw |-> "", filtered |-> ""]
    ELSE IF at.f < BackOff
    THEN IF checks
         THEN at @@ [status |-> "panic", wrapped |-> FALSE, raw |-> "",
                     filtered |-> ""]
         ELSE Filtered(at, TRUE,
                       Substring(full_description, at.i, Len(full_description) + 1))
    ELSE Filtered(at, FALSE, Substring(full_description, at.i, at.f - BackOff))

(* The extraction part of get_desc_teaching_page, from the title and the    *)
(* description block to filtered_description.                               *)
ExtractDescription(teaching_title, full_description, order, checks) ==
    Slice(full_description, checks,
          Offsets(teaching_title, full_description, order))

-----------------------------------------------------------------------------
(* year.rs *)

(* 1-based index of the month of September *)
SEPTEMBER == 9

(* A variant of current_academic_year that opens the academic year in       *)
(* October: C6 must tell it from current_academic_year.                     *)
AcademicYearFromOctober(date) ==
    IF date.month > SEPTEMBER THEN date.year ELSE date.year - 1

(* current_academic_year: the opening solar year of the academic year of `date` *)
current_academic_year(date) ==
    IF date.month >= SEPTEMBER THEN date.year ELSE date.year - 1

-----------------------------------------------------------------------------
(* degrees/mod.rs: resolving a predegree *)

(* The number of enrollment years to scrape for each degree *)
YEARS_PER_DEGREE == 3

(* previous_academic_year *)
previous_academic_year(date) == current_academic_year(date) - 1

(* first_scraped_year *)
first_scraped_year(date) == previous_academic_year(date) - YEARS_PER_DEGREE

(* the range first_scraped_year..previous_academic_year, upper end excluded, *)
(* as the ascending sequence the iterator yields                             *)
ScrapedYears(date) ==
    [k \in 1..(previous_academic_year(date) - first_scraped_year(date)) |->
        first_scraped_year(date) + k - 1]

(* name_to_level *)
name_to_level(name) ==
    IF Contains(name, "Magistrale") \/ Contains(name, "Master")
    THEN "magistrale"
    ELSE "laurea"

UpperCase == "ABCDEFGHIJKLMNOPQRSTUVWXYZ"
LowerCase == "abcdefghijklmnopqrstuvwxyz"

(* str::to_lowercase on ASCII text *)
RECURSIVE to_lowercase(_)
to_lowercase(s) ==
    IF s = "" THEN ""
    ELSE LET c == SubSeq(s, 1, 1)
             k == Find(UpperCase, c)
         IN  (IF k = None THEN c ELSE SubSeq(LowerCase, k + 1, k + 1))
             \o to_lowercase(SubSeq(s, 2, Len(s)))

(* to_lowercase_maybe *)
to_lowercase_maybe(s, b) == IF b THEN to_lowercase(s) ELSE s

(* The alternatives of the pattern ( (e|per il|in) )|Magistrale|Master, in   *)
(* the order the regex engine tries them at one position.                    *)
SlugPattern == <<" e ", " per il ", " in ", "Magistrale", "Master">>

(* Regex::replace_all(name, ""): leftmost matches, left to right *)
RECURSIVE RegexStrip(_)
RegexStrip(s) ==
    IF s = "" THEN ""
    ELSE LET hits == {k \in DOMAIN SlugPattern :
                         /\ Len(SlugPattern[k]) <= Len(s)
                         /\ SubSeq(s, 1, Len(SlugPattern[k])) = SlugPattern[k]}
         IN  IF hits = {}
             THEN SubSeq(s, 1, 1) \o RegexStrip(SubSeq(s, 2, Len(s)))
             ELSE RegexStrip(SubSeq(s, Len(SlugPattern[Min(hits)]) + 1, Len(s)))

(* name_and_code_to_slug *)
name_and_code_to_slug(name, code) ==
    StrReplace(to_lowercase_maybe(RegexStrip(name), code # "9254/000"),
               " ", IF code = "9063/000" THEN "-" ELSE "")

(* the URL get_degree_structure_url visits *)
ProbeUrl(degree_level, degree_name, year) ==
    "https://corsi.unibo.it/" \o degree_level \o "/" \o degree_name
        \o "/insegnamenti?year=" \o ToString(year)

(* A variant of IsIncomplete that drops a predegree only when every field   *)
(* is empty: C7 must tell it from IsIncomplete.                             *)
AllFieldsEmpty(predegree) ==
    predegree.name = "" /\ predegree.id = "" /\ predegree.code = ""

(* parse_degree's test: the predegree is dropped when a field is empty *)
IsIncomplete(predegree) ==
    predegree.name = "" \/ predegree.id = "" \/ predegree.code = ""

-----------------------------------------------------------------------------
(* The site the program scrapes.  Pages are what the selectors find in them. *)

(* The href of the first link of the probe page of a year *)
StructureUrl(degree_level, degree_name, year) ==
    "https://corsi.unibo.it/" \o degree_level \o "/" \o degree_name
        \o "/piano/" \o ToString(year)

NoAnchor(text) == [text |-> text, href |-> <<>>]
Anchor(text, href) == [text |-> text, href |-> <<href>>]

(* The td.title cells of the structure pages the site serves *)
StructurePages ==
    << <<>>,
       << Anchor(" ALGORITHMS ", "https://www.unibo.it/it/i/1"),
          NoAnchor("THESIS") >>,
       << NoAnchor("INTERNSHIP"),
          Anchor("OPERATING SYSTEMS", "https://www.unibo.it/it/i/4"),
          Anchor("HISTORY", "https://www.unibo.it/it/i/5"),
          Anchor("LOGIC", "https://www.unibo.it/it/i/2") >>,
       << Anchor("NUMERICAL COMPUTING", "https://www.unibo.it/it/i/3"),
          Anchor("SEMINAR", "https://www.unibo.it/it/i/6") >> >>

(* The cells of the structure page at `url`: a different page every year *)
StructureSite(url) ==
    LET k == Find(url, "/piano/")
        y == SubSeq(url, k + 8, Len(url))
        n == CHOOSE m \in 0..9 : ToString(m) = SubSeq(y, Len(y), Len(y))
        shift == IF Contains(url, "/magistrale/") THEN 1 ELSE 0
    IN  StructurePages[((n + shift) % Len(StructurePages)) + 1]

(* The Italian teaching pages: the inner HTML of li.language-en, if any *)
ItalianPages ==
    { [url |-> "https://www.unibo.it/it/i/1",
       lang |-> <<"<a href=\"https://www.unibo.it/en/t/1\">English</a>">>],
      [url |-> "https://www.unibo.it/it/i/2", lang |-> <<>>],
      [url |-> "https://www.unibo.it/it/i/3",
       lang |-> <<"<a href=\"https://www.unibo.it/en/t/3\">English</a>">>],
      [url |-> "https://www.unibo.it/it/i/4",
       lang |-> <<"<a href=\"https://www.unibo.it/en/t/4\">English</a>">>],
      [url |-> "https://www.unibo.it/it/i/5",
       lang |-> <<"<a title=\"en\" href=\"https://www.unibo.it/en/t/5\">English</a>">>],
      [url |-> "https://www.unibo.it/it/i/6", lang |-> <<"<span>English</span>">>] }

(* The English teaching pages: the title heading and the description block *)
EnglishPages ==
    { [url |-> "https://www.unibo.it/en/t/1",
       title |-> <<"Algorithms">>,
       description |-> <<"Learning outcomes\nKnow graphs.\n\nReadings\nCLRS">>],
      [url |-> "https://www.unibo.it/en/t/3",
       title |-> <<"Numerical Computing">>,
       description |-> <<"">>],
      [url |-> "https://www.unibo.it/en/t/4",
       title |-> <<"Operating Systems">>,
       description |-> <<"Learning outcomes\nKnow kernels.">>],
      [url |-> "https://www.unibo.it/en/t/5",
       title |-> <<"History of Informatics">>,
       description |-> <<"Learning outcomes\nPast machines.\n\nOffice hours\nMonday">>] }

(* reqwest::blocking::get(url)?.text()?: <<page>>, or <<>> for an error *)
Get(pages, url, up) ==
    LET hits == {p \in pages : p.url = url}
    IN  IF ~up \/ hits = {} THEN <<>> ELSE <<CHOOSE p \in hits : TRUE>>

-----------------------------------------------------------------------------
(* teachings.rs: the teaching page *)

Ok(v) == [ok |-> TRUE, v |-> v]
Err(e) == [ok |-> FALSE, v |-> e]

(* get_eng_url *)
get_eng_url(url, up) ==
    IF url = "" THEN Ok("")
    ELSE LET page == Get(ItalianPages, url, up)
         IN  IF page = <<>> THEN Err("error sending request")
             ELSE IF page[1].lang = <<>> THEN Err("Cannot get english url")
             ELSE Ok(page[1].lang[1])

(* teaching_url: from the first "http" to the first double quote after it *)
TeachingUrl(eng_url_temp) ==
    LET h == Find(eng_url_temp, "http")
        start == IF h = None THEN 0 ELSE h
        tmp == Substring(eng_url_temp, start, Len(eng_url_temp))
        q == Find(tmp, "\"")
        end == IF q = None THEN 0 ELSE q
    IN  Substring(tmp, 0, end)

(* the section get_desc_teaching_page returns *)
Section(teaching_url, teaching_title, slug, year, filtered_description) ==
    "\n== " \o teaching_url \o "[" \o teaching_title \o "]\n\nlink:degree-"
        \o slug \o "-" \o ToString(year) \o ".pdf[PDF], xref:degree-"
        \o slug \o "-" \o ToString(year) \o ".adoc[ADOC].\n\n"
        \o Trim(filtered_description)

(* get_desc_teaching_page once the description is extracted *)
Formatted(slug, year, teaching_url, teaching_title, x) ==
    IF x.status = "panic"
    THEN Err("attempt to subtract with overflow") @@ [panic |-> TRUE]
    ELSE IF x.status = "err"
    THEN Err("No description end marker defined for this page content")
         @@ [panic |-> FALSE]
    ELSE Ok(Section(teaching_url, teaching_title, slug, year, x.filtered))
         @@ [panic |-> FALSE]

(* get_desc_teaching_page once the English page is fetched *)
Parsed(slug, year, order, checks, teaching_url, page) ==
    IF page = <<>> THEN Err("error sending request") @@ [panic |-> FALSE]
    ELSE IF page[1].title = <<>>
    THEN Err("Cannot parse teaching title") @@ [panic |-> FALSE]
    ELSE IF page[1].description = <<>>
    THEN Err("Cannot parse teaching description") @@ [panic |-> FALSE]
    ELSE Formatted(slug, year, teaching_url, page[1].title[1],
                   ExtractDescription(page[1].title[1], page[1].description[1],
                                      order, checks))

(* get_desc_teaching_page once the English URL is cut out *)
Fetched(slug, year, up, order, checks, teaching_url) ==
    Parsed(slug, year, order, checks, teaching_url,
           Get(EnglishPages, teaching_url, up))

(* get_desc_teaching_page once get_eng_url has returned *)
Resolved(slug, year, up, order, checks, eng) ==
    IF ~eng.ok THEN eng @@ [panic |-> FALSE]
    ELSE Fetched(slug, year, up, order, checks, TeachingUrl(eng.v))

(* get_desc_teaching_page: Ok(section), Err(error), or a panic on `f - 2` *)
get_desc_teaching_page(slug, year, url, up, order, checks) ==
    Resolved(slug, year, up, order, checks, get_eng_url(url, up))

-----------------------------------------------------------------------------
(* degrees/mod.rs: scraping a year *)

(* Italian-to-English dictionary, in the order the fold applies it *)
MISSING_TRANSLATIONS ==
    << <<"BASI DI DATI", "DATABASES">>,
       <<"INTRODUZIONE ALL'APPRENDIMENTO AUTOMATICO", "Introduction to machine learning">>,
       <<"FONDAMENTI DI", "">>,
       <<"Learning outcomes", "=== Learning outcomes">>,
       <<"Teaching contents", "=== Teaching contents">> >>

RECURSIVE FoldReplace(_, _)
FoldReplace(s, rules) ==
    IF rules = <<>> THEN s
    ELSE FoldReplace(StrReplace(s, rules[1][1], rules[1][2]), Tail(rules))

(* render_description *)
render_description(d) == FoldReplace("\n" \o d, MISSING_TRANSLATIONS)

(* .map_err(..).map(render_description) *)
MapResult(r) ==
    IF r.panic THEN r
    ELSE IF r.ok THEN [r EXCEPT !.v = render_description(r.v)]
    ELSE [r EXCEPT !.v = "\t\tWARN: Cannot get description: " \o r.v]

(* scrape_link *)
scrape_link(url, degree_slug, year, up, order, checks) ==
    MapResult(get_desc_teaching_page(degree_slug, year, url, up, order, checks))

(* render_course up to its last line: the Result handed to                  *)
(* result_to_option_with_print                                              *)
CourseResult(cell, degree_slug, year, up, order, checks) ==
    IF cell.href = <<>>
    THEN Err("\t\tWARN: Missing link: " \o Trim(cell.text)) @@ [panic |-> FALSE]
    ELSE scrape_link(cell.href[1], degree_slug, year, up, order, checks)

(* A variant of result_to_option_with_print that prints nothing, as         *)
(* Result::ok does: C1 must tell it from result_to_option_with_print.       *)
ResultToOptionSilently(r) ==
    IF r.ok THEN [opt |-> <<r.v>>, printed |-> <<>>]
    ELSE [opt |-> <<>>, printed |-> <<>>]

(* result_to_option_with_print: the Option, and what goes to stderr *)
result_to_option_with_print(r) ==
    IF r.ok THEN [opt |-> <<r.v>>, printed |-> <<>>]
    ELSE [opt |-> <<>>, printed |-> <<r.v>>]

(* the heading of a year's document *)
YearTitle(degree_name, year) ==
    "= " \o degree_name \o " (" \o ToString(year) \o ")\n\n"

(* A variant of YearDocument that leaves the heading out of a document      *)
(* without courses: C2 must tell it from YearDocument.                      *)
YearDocumentOfCourses(degree_name, year, courses) ==
    IF courses = <<>> THEN "" ELSE YearTitle(degree_name, year) \o Join(courses, "")

(* analyze_year_with_error's value: title + courses.join("") *)
YearDocument(degree_name, year, courses) ==
    YearTitle(degree_name, year) \o Join(courses, "")

-----------------------------------------------------------------------------
(* writer.rs *)

(* the path write_year writes *)
OutputFile(slug, year) == "output/degree-" \o slug \o "-" \o ToString(year) \o ".adoc"

INDEX_PATH == "output/index.adoc"

(* write_year's value: the index text with the year listed *)
IndexEntry(a, name, slug, year) ==
    LET key == "degree-" \o slug \o "-" \o ToString(year)
    IN  a \o "\n\n== " \o name \o " (" \o ToString(year) \o ")\n\nxref:" \o key
          \o ".adoc[web] | link:" \o key \o ".pdf[PDF] | link:" \o key
          \o ".adoc[Asciidoc]\n\n"

(* entries.sort_by_key(|(k, _)| *k): a stable insertion sort on the years *)
RECURSIVE Insert(_, _)
Insert(sorted, x) ==
    IF sorted = <<>> THEN <<x>>
    ELSE IF x[1] < Head(sorted)[1] THEN <<x>> \o sorted
    ELSE <<Head(sorted)>> \o Insert(Tail(sorted), x)

(* A variant of SortByKey that leaves the entries in iteration order: C10   *)
(* must tell it from SortByKey.                                             *)
Unsorted(es) == es

RECURSIVE SortByKey(_)
SortByKey(es) ==
    IF es = <<>> THEN <<>>
    ELSE Insert(SortByKey(SubSeq(es, 1, Len(es) - 1)), es[Len(es)])

(* the head of the index *)
IndexHeader ==
    "= Unified Course Descriptions for Some UNIBO Degrees\n\n"
    \o "https://cartabinaria.students.cs.unibo.it/en/wiki/web-scraper/course-description-merged/[Documentation]\n\n"

-----------------------------------------------------------------------------
(* The run of write_index_and_degrees *)

(* At most this many predegrees in config/degrees.json *)
MaxSeeds == 2

(* At most this many failures of the network or the filesystem in one run *)
MaxFaults == 1

(* The predegrees a seed file may list: two complete ones, and one with each *)
(* field empty.                                                              *)
Predegrees ==
    { [id |-> "informatica", name |-> "Informatica", code |-> "8009/000"],
      [id |-> "ai", name |-> "Master in Artificial Intelligence", code |-> "9063/000"],
      [id |-> "", name |-> "Fisica", code |-> "9244/000"],
      [id |-> "fisica", name |-> "", code |-> "9244/000"],
      [id |-> "matematica", name |-> "Matematica", code |-> ""] }

(* The seed files: the id of a predegree is unique in the file *)
SeedFiles ==
    {s \in UNION {[1..n -> Predegrees] : n \in 0..MaxSeeds} :
        \A a, b \in DOMAIN s : a # b => s[a] # s[b]}

(* The date the run is started on *)
RunYear == 2025
RunDates == {[year |-> RunYear, month |-> SEPTEMBER]}

NoYear == [year |-> 0, cells |-> <<>>, k |-> 0, courses |-> <<>>,
           results |-> <<>>, printed |-> <<>>]

IdleRun ==
    /\ pc = "start"
    /\ cause = "none"
    /\ seeds = <<>>
    /\ ri = 0
    /\ degs = <<>>
    /\ probes = <<>>
    /\ faults = 0
    /\ di = 0
    /\ pending = {}
    /\ res = <<>>
    /\ cur = NoYear
    /\ analysed = <<>>
    /\ entries = <<>>
    /\ acc = ""
    /\ frags = <<>>
    /\ written = <<>>

Init ==
    /\ title = ""
    /\ desc = ""
    /\ ext = [status |-> "idle"]
    /\ now \in RunDates
    /\ IdleRun

(* A variant of Unwrap that ignores the error: C8 must tell it from Unwrap. *)
Ignored(ok, next) == next

(* .unwrap() of a Result: the run goes on, or panics *)
Unwrap(ok, next) == IF ok THEN next ELSE "panicked"

(* where the run is once to_degrees has consumed n predegrees *)
AfterPredegree(n, predegrees) == IF n = Len(predegrees) THEN "degree" ELSE "resolve"

(* degrees(): File::open and from_reader, then to_degrees; unwrapped by      *)
(* compute_index_and_write_degrees                                           *)
Degrees ==
    /\ pc = "start"
    /\ \/ /\ faults < MaxFaults
          /\ faults' = faults + 1
          /\ pc' = Unwrap(FALSE, "resolve")
          /\ cause' = "seed"
          /\ UNCHANGED seeds
       \/ /\ \E s \in SeedFiles :
                /\ seeds' = s
                /\ pc' = Unwrap(TRUE, AfterPredegree(0, s))
          /\ UNCHANGED <<faults, cause>>
    /\ UNCHANGED <<evars, now, ri, degs, probes, di, pending, res, cur,
                   analysed, entries, acc, frags, written>>

(* the probes of one call of get_degree_structure_urls, in the order issued *)
Probes(rec, degree_level, degree_name, date) ==
    LET years == ScrapedYears(date)
    IN  [k \in DOMAIN years |->
            [rec |-> rec, year |-> years[k],
             url |-> ProbeUrl(degree_level, degree_name, years[k])]]

(* parse_degree on the next predegree of to_degrees.  `found` are the years  *)
(* whose probe is answered with a page that holds the first link.            *)
ParseDegree ==
    /\ pc = "resolve"
    /\ ri < Len(seeds)
    /\ LET predegree == seeds[ri + 1]
           level == name_to_level(predegree.name)
           unibo_slug == name_and_code_to_slug(predegree.name, predegree.code)
           years == {ScrapedYears(now)[k] : k \in DOMAIN ScrapedYears(now)}
       IN  IF IsIncomplete(predegree)
           THEN UNCHANGED <<degs, probes, faults>>
           ELSE \E found \in SUBSET years :
                   /\ faults + Cardinality(years \ found) <= MaxFaults
                   /\ faults' = faults + Cardinality(years \ found)
                   /\ probes' = probes \o Probes(ri + 1, level, unibo_slug, now)
                   /\ degs' = Append(degs,
                         [name |-> predegree.name,
                          slug |-> predegree.id,
                          year_urls |-> [y \in found |->
                                            StructureUrl(level, unibo_slug, y)]])
    /\ ri' = ri + 1
    /\ pc' = AfterPredegree(ri + 1, seeds)
    /\ UNCHANGED <<evars, now, cause, seeds, di, pending, res, cur,
                   analysed, entries, acc, frags, written>>

(* compute_index_and_write_degrees: the iterator over the degrees moves on,  *)
(* and analyze_and_write_degree starts on the next degree, if there is one   *)
NextDegree ==
    /\ pc = "degree"
    /\ IF di < Len(degs)
       THEN /\ di' = di + 1
            /\ pending' = DOMAIN degs[di + 1].year_urls
            /\ res' = <<>>
            /\ analysed' = <<>>
            /\ pc' = "analyze"
       ELSE /\ pc' = "index"
            /\ UNCHANGED <<di, pending, res, analysed>>
    /\ UNCHANGED <<evars, now, cause, seeds, ri, degs, probes, faults,
                   cur, entries, acc, frags, written>>

(* what analyze_year leaves behind when it returns *)
Analysed(year, ok, cells, results, printed, doc) ==
    [deg |-> di, year |-> year, ok |-> ok, cells |-> cells, results |-> results,
     printed |-> printed, doc |-> doc]

(* analyze_degree's collect() of one Some((year, document)) *)
Collect(map, year, doc) == (year :> doc) @@ map

(* analyze_year on some entry of year_urls not visited yet (a HashMap: any   *)
(* order), up to the first td.title cell.  A page without cells is complete. *)
AnalyzeYear ==
    /\ pc = "analyze"
    /\ pending # {}
    /\ \E year \in pending :
        /\ pending' = pending \ {year}
        /\ \/ /\ faults < MaxFaults
              /\ faults' = faults + 1
              /\ analysed' = Append(analysed,
                    Analysed(year, FALSE, <<>>, <<>>, <<"\tNetwork error">>, ""))
              /\ UNCHANGED <<res, cur, pc>>
           \/ LET cells == StructureSite(degs[di].year_urls[year])
                  doc == YearDocument(degs[di].name, year, <<>>)
              IN  /\ UNCHANGED faults
                  /\ IF cells = <<>>
                     THEN /\ res' = Collect(res, year, doc)
                          /\ analysed' = Append(analysed,
                                Analysed(year, TRUE, cells, <<>>, <<>>, doc))
                          /\ UNCHANGED <<cur, pc>>
                     ELSE /\ cur' = [NoYear EXCEPT !.year = year, !.cells = cells]
                          /\ pc' = "course"
                          /\ UNCHANGED <<res, analysed>>
    /\ UNCHANGED <<evars, now, cause, seeds, ri, degs, probes, di,
                   entries, acc, frags, written>>

(* analyze_year_with_error once render_course has returned `o` for the next  *)
(* cell: the filter_map goes on, and after the last cell the document is     *)
(* returned and collected                                                    *)
Rendered(o) ==
    IF cur.k + 1 = Len(cur.cells)
    THEN /\ res' = Collect(res, cur.year,
                    YearDocument(degs[di].name, cur.year, cur.courses \o o.opt))
         /\ analysed' = Append(analysed,
               Analysed(cur.year, TRUE, cur.cells, Append(cur.results, o.opt),
                        cur.printed \o o.printed,
                        YearDocument(degs[di].name, cur.year, cur.courses \o o.opt)))
         /\ cur' = NoYear
         /\ pc' = "analyze"
    ELSE /\ cur' = [cur EXCEPT !.k = cur.k + 1,
                               !.courses = cur.courses \o o.opt,
                               !.results = Append(cur.results, o.opt),
                               !.printed = cur.printed \o o.printed]
         /\ UNCHANGED <<pc, res, analysed>>

(* the Result of render_course: a panic ends the run *)
Returned(r) ==
    IF r.panic
    THEN /\ pc' = "panicked"
         /\ cause' = "overflow"
         /\ UNCHANGED <<cur, res, analysed>>
    ELSE /\ Rendered(result_to_option_with_print(r))
         /\ UNCHANGED cause

(* render_course on the next cell of the year under analysis; after the last *)
(* cell analyze_year returns the document.  `up`: the network answers;       *)
(* `order`: the iteration order of DESC_END_MARKER; `checks`: the build      *)
(* panics on arithmetic overflow.                                            *)
RenderCourse ==
    /\ pc = "course"
    /\ \E up \in BOOLEAN, order \in HashOrders, checks \in BOOLEAN :
        /\ up \/ (cur.cells[cur.k + 1].href # <<>> /\ faults < MaxFaults)
        /\ faults' = IF up THEN faults ELSE faults + 1
        /\ Returned(CourseResult(cur.cells[cur.k + 1], degs[di].slug, cur.year,
                                 up, order, checks))
    /\ UNCHANGED <<evars, now, seeds, ri, degs, probes, di, pending,
                   entries, acc, frags, written>>

(* the sequences that list every key of the map once: what iter() may yield *)
IterOrders(map) ==
    {o \in [1..Cardinality(DOMAIN map) -> DOMAIN map] :
        \A a, b \in DOMAIN o : a # b => o[a] # o[b]}

(* analyze_and_write_degree once analyze_degree has returned: the entries of *)
(* the map are collected in its iteration order and sorted by year           *)
SortEntries ==
    /\ pc = "analyze"
    /\ pending = {}
    /\ \E o \in IterOrders(res) :
           entries' = SortByKey([k \in DOMAIN o |-> <<o[k], res[o[k]]>>])
    /\ acc' = ""
    /\ pc' = "write"
    /\ UNCHANGED <<evars, now, cause, seeds, ri, degs, probes, faults, di,
                   pending, res, cur, analysed, frags, written>>

(* write_year on the next entry of the fold *)
WriteYear ==
    /\ pc = "write"
    /\ entries # <<>>
    /\ LET year == entries[1][1]
           content == entries[1][2]
           file == OutputFile(degs[di].slug, year)
       IN  \E ok \in BOOLEAN :
             /\ ok \/ faults < MaxFaults
             /\ faults' = IF ok THEN faults ELSE faults + 1
             /\ written' = Append(written,
                                  [file |-> file, content |-> content, ok |-> ok])
             /\ pc' = Unwrap(ok, "write")
             /\ cause' = IF pc' = "panicked" THEN "write_year" ELSE cause
             /\ IF pc' = "panicked"
                THEN UNCHANGED <<acc, entries>>
                ELSE /\ acc' = IndexEntry(acc, degs[di].name, degs[di].slug, year)
                     /\ entries' = Tail(entries)
    /\ UNCHANGED <<evars, now, seeds, ri, degs, probes, di, pending, res,
                   cur, analysed, frags>>

(* analyze_and_write_degree returns the folded text of its degree *)
FinishDegree ==
    /\ pc = "write"
    /\ entries = <<>>
    /\ frags' = Append(frags, acc)
    /\ pc' = "degree"
    /\ UNCHANGED <<evars, now, cause, seeds, ri, degs, probes, faults, di,
                   pending, res, cur, analysed, entries, acc, written>>

(* write_index_and_degrees: the index is written, or the run panics *)
WriteIndex ==
    /\ pc = "index"
    /\ \E ok \in BOOLEAN :
         /\ ok \/ faults < MaxFaults
         /\ faults' = IF ok THEN faults ELSE faults + 1
         /\ written' = Append(written,
               [file |-> INDEX_PATH,
                content |-> IndexHeader \o Join(frags, "\n"),
                ok |-> ok])
         /\ pc' = IF ok THEN "done" ELSE "panicked"
         /\ cause' = IF ok THEN cause ELSE "write_index"
    /\ UNCHANGED <<evars, now, seeds, ri, degs, probes, di, pending, res,
                   cur, analysed, entries, acc, frags>>

Next ==
    \/ Degrees
    \/ ParseDegree
    \/ NextDegree
    \/ AnalyzeYear
    \/ RenderCourse
    \/ SortEntries
    \/ WriteYear
    \/ FinishDegree
    \/ WriteIndex

Spec == Init /\ [][Next]_vars

-----------------------------------------------------------------------------
(* The extraction on its own: every title and description block below, under *)
(* every iteration order of the table and both builds.                       *)

Titles ==
    { "History of Informatics and Computer Science",
      "Numerical Computing",
      "Algorithms and Data Structures",
      "Numerical Computing and History of Informatics",
      "Programming in C*",
      "Numerical Computing (*)" }

Descriptions ==
    { "Intro text.\nLearning outcomes\nBody here.\nTeaching\nFooter.",
      "Learning outcomes\nKnow graphs.\n\n  Know trees. \n\nReadings\nCLRS",
      "Learning outcomes\nPast machines.\n\nOffice hours\nMonday",
      "Learning outcomes\nBody only.",
      "Course contents\nStuff.\n\nReadings\nBook",
      "Readings first.\nLearning outcomes\nBody",
      "Teaching\nOffice\nReadings\nLearning outcomes\nAll",
      "x",
      "" }

InitExtract ==
    /\ title \in Titles
    /\ desc \in Descriptions
    /\ ext = [status |-> "none"]
    /\ now = [year |-> RunYear, month |-> SEPTEMBER]
    /\ IdleRun

(* get_desc_teaching_page from the parsed title and description on *)
Extract ==
    /\ ext.status = "none"
    /\ \E order \in HashOrders, checks \in BOOLEAN :
           ext' = ExtractDescription(title, desc, order, checks) @@ [order |-> order]
    /\ UNCHANGED <<title, desc, pvars>>

NextExtract == Extract

SpecExtract == InitExtract /\ [][NextExtract]_vars

-----------------------------------------------------------------------------
(* The academic-year window on its own: the resolution of the seed file on   *)
(* every date of the years below.                                            *)

MinClockYear == 2024
MaxClockYear == 2026

ClockDates ==
    {[year |-> y, month |-> m] : y \in MinClockYear..MaxClockYear, m \in 1..12}

InitWindow ==
    /\ title = ""
    /\ desc = ""
    /\ ext = [status |-> "idle"]
    /\ now \in ClockDates
    /\ IdleRun

NextWindow == Degrees \/ ParseDegree

SpecWindow == InitWindow /\ [][NextWindow]_vars

-----------------------------------------------------------------------------
(* Properties *)

(* the Some values of a sequence of Options, in order *)
RECURSIVE Somes(_)
Somes(options) ==
    IF options = <<>> THEN <<>> ELSE Head(options) \o Somes(Tail(options))

(* the number of occurrences of p in s *)
RECURSIVE Count(_, _)
Count(s, p) ==
    IF Find(s, p) = None THEN 0
    ELSE 1 + Count(SubSeq(s, Find(s, p) + Len(p) + 1, Len(s)), p)

(* the line a course section opens with *)
SectionMark == "\n== "

MapReturned ==
    \/ pc = "analyze" /\ pending = {}
    \/ pc = "write"

(* C2: a year is in the map analyze_degree is collecting exactly when its   *)
(* structure page was fetched; once the map is returned every discovered    *)
(* year has been visited, failing or not; and a year that was fetched and   *)
(* gave no course has the bare heading as its document.                     *)
C2_YearFailuresAreSoft ==
    /\ pc \in {"analyze", "write"} =>
          /\ \A n \in DOMAIN analysed :
                analysed[n].ok <=> analysed[n].year \in DOMAIN res
          /\ \A y \in DOMAIN res : \E n \in DOMAIN analysed : analysed[n].year = y
          /\ \A n \in DOMAIN analysed :
                (analysed[n].ok /\ Somes(analysed[n].results) = <<>>) =>
                    res[analysed[n].year] =
                        "= " \o degs[di].name \o " ("
                             \o ToString(analysed[n].year) \o ")\n\n"
    /\ MapReturned =>
          \A y \in DOMAIN degs[di].year_urls :
              \E n \in DOMAIN analysed : analysed[n].year = y

(* C2 witness: the map is returned; one year failed and is absent, another  *)
(* was fetched, gave no course, and is present.                             *)
C2_Witness ==
    /\ MapReturned
    /\ \E n \in DOMAIN analysed :
          ~analysed[n].ok /\ analysed[n].year \notin DOMAIN res
    /\ \E n \in DOMAIN analysed :
          /\ analysed[n].ok
          /\ Somes(analysed[n].results) = <<>>
          /\ analysed[n].year \in DOMAIN res

(* the marker the scan of the table in its written order selects: that of   *)
(* the first entry other than the wildcard whose pattern is in the title,   *)
(* else the wildcard's                                                      *)
ConfiguredMarker(t) ==
    LET hits == {k \in DOMAIN DESC_END_MARKER :
                    /\ DESC_END_MARKER[k].pattern # "*"
                    /\ Contains(t, DESC_END_MARKER[k].pattern)}
    IN  IF hits = {} THEN MarkerGet("*")
        ELSE <<DESC_END_MARKER[Min(hits)].marker>>

(* C3: the end marker of every extraction is the one the scan of the table  *)
(* in its written order selects, the wildcard's only when no other pattern  *)
(* is in the title.                                                         *)
C3_FirstConfiguredPatternWins ==
    ext.status \in {"ok", "err", "panic"} => ext.marker = ConfiguredMarker(title)

(* C4: when the end marker is not in the description block, the end offset  *)
(* is the length of the block and the extraction is no error.               *)
C4_MissingMarkerDefaultsToEnd ==
    (/\ ext.status \in {"ok", "err", "panic"}
     /\ ext.marker # <<>>
     /\ ~Contains(desc, ext.marker[1]))
        => (ext.status # "err" /\ ext.f = Len(desc))

C5Block == "Intro text.\nLearning outcomes\nBody here.\nTeaching\nFooter."

C5Case ==
    /\ desc = C5Block
    /\ ext.status \in {"ok", "err", "panic"}
    /\ ext.marker = <<"Teaching">>

(* C5, as amended: on the block above with the end marker "Teaching" the    *)
(* slice starts at the start marker, offset 12, and ends two characters     *)
(* before the end marker, offset 41: the body is "Learning outcomes\nBody   *)
(* here", which normalizes to the two paragraphs "Learning outcomes" and    *)
(* "Body here".                                                             *)
C5_BodyStartsAtStartMarker ==
    C5Case =>
        /\ ext.status = "ok"
        /\ ext.i = 12
        /\ ext.f = 41
        /\ ext.raw = "Learning outcomes\nBody here"
        /\ ext.filtered = "Learning outcomes\n\nBody here"

(* C5 witness: the block has been sliced with the end marker "Teaching" *)
C5_Witness == C5Case /\ ext.status = "ok" /\ ~ext.wrapped

(* C5, as stated: the body is "\nBody here.\n" and normalizes to the single *)
(* paragraph "Body here."                                                   *)
C5_BodyBetweenMarkers ==
    C5Case => (ext.raw = "\nBody here.\n" /\ ext.filtered = "Body here.")

(* the academic year of the clock, as C6 defines it *)
AcademicYear == IF now.month >= 9 THEN now.year ELSE now.year - 1

(* C6: every probe is for one of the 3 years A-4, A-3, A-2; every predegree *)
(* that is probed is probed for exactly these; and from August to September *)
(* of the clock's year both ends of the window move up by one.              *)
C6_WindowExcludesRecentYears ==
    /\ \A k \in DOMAIN probes :
          probes[k].year \in (AcademicYear - 4)..(AcademicYear - 2)
    /\ \A k \in DOMAIN probes :
          {probes[m].year : m \in {j \in DOMAIN probes : probes[j].rec = probes[k].rec}}
              = {AcademicYear - 4, AcademicYear - 3, AcademicYear - 2}
    /\ \A k \in DOMAIN probes : probes[k].year \notin {AcademicYear, AcademicYear - 1}
    /\ LET august == [year |-> now.year, month |-> 8]
           september == [year |-> now.year, month |-> 9]
       IN  /\ first_scraped_year(september) = first_scraped_year(august) + 1
           /\ previous_academic_year(september) = previous_academic_year(august) + 1
           /\ Len(ScrapedYears(september)) = 3
           /\ Len(ScrapedYears(august)) = 3

(* C6 witness: a predegree has been probed on a date in September *)
C6_Witness == now.month = 9 /\ Len(probes) = 3

(* a predegree with an empty field, as C7 defines it *)
HasEmptyField(p) == p.id = "" \/ p.name = "" \/ p.code = ""

(* the predegrees among the first n of the seed file that have no empty field *)
Complete(n) == SelectSeq(SubSeq(seeds, 1, n), LAMBDA p : ~HasEmptyField(p))

(* C7: no probe is issued for a predegree with an empty field, and none     *)
(* becomes a Degree; the degrees built so far are the predegrees consumed   *)
(* so far that have no empty field, in seed order, each probed in turn.     *)
C7_IncompleteSeedsAreDropped ==
    /\ \A k \in DOMAIN probes : ~HasEmptyField(seeds[probes[k].rec])
    /\ Len(degs) = Len(Complete(ri))
    /\ \A j \in DOMAIN degs :
          /\ degs[j].slug = Complete(ri)[j].id
          /\ degs[j].name = Complete(ri)[j].name
    /\ \A j, k \in DOMAIN probes : j < k => probes[j].rec <= probes[k].rec
    /\ \A n \in 1..ri :
          ~HasEmptyField(seeds[n]) => \E k \in DOMAIN probes : probes[k].rec = n

(* C7 witness: a predegree with an empty field was consumed, then a         *)
(* complete one was resolved                                                *)
C7_Witness ==
    /\ ri = 2
    /\ HasEmptyField(seeds[1])
    /\ Len(degs) = 1
    /\ probes # <<>>

(* C8: when the seed file cannot be loaded nothing is ever written; a write *)
(* that fails is the last write of the run, which has panicked, and the     *)
(* writes before it succeeded and stay.                                     *)
C8_SeedAndSinkFailuresAreFatal ==
    /\ cause = "seed" => (pc = "panicked" /\ written = <<>>)
    /\ \A k \in DOMAIN written :
          ~written[k].ok => (k = Len(written) /\ pc = "panicked")
    /\ cause \in {"write_year", "write_index"} =>
          /\ written # <<>>
          /\ ~written[Len(written)].ok
    /\ cause = "write_year" =>
          \A k \in DOMAIN written : written[k].file # INDEX_PATH

(* C8 witness: a year document was written, and the next write failed *)
C8_Witness ==
    /\ pc = "panicked"
    /\ cause = "write_year"
    /\ Len(written) = 2
    /\ written[1].ok

(* C9: the years of a degree are analysed in ascending order *)
C9_YearsAnalysedAscending ==
    \A j, k \in DOMAIN analysed : j < k => analysed[j].year < analysed[k].year

(* the years of a map in ascending order *)
RECURSIVE Ascending(_)
Ascending(years) ==
    IF years = {} THEN <<>>
    ELSE <<Min(years)>> \o Ascending(years \ {Min(years)})

(* the index text after the first n years of a map, in ascending order *)
RECURSIVE IndexOf(_, _)
IndexOf(years, n) ==
    IF n = 0 THEN ""
    ELSE IndexEntry(IndexOf(years, n - 1), degs[di].name, degs[di].slug, years[n])

(* C10: whatever order the map is iterated in, its documents are written in *)
(* ascending year order: while the degree is being written, the documents   *)
(* written for it and those left to write are the entries of the map in     *)
(* ascending year order, each with the map's content under the year's file  *)
(* name, and the index text is that of the years written, in that order.    *)
C10_WrittenInAscendingYearOrder ==
    pc = "write" =>
        LET years == Ascending(DOMAIN res)
            n == Len(years) - Len(entries)
            first == Len(written) - n
        IN  /\ n >= 0
            /\ first >= 0
            /\ \A k \in 1..n :
                  /\ written[first + k].ok
                  /\ written[first + k].file = OutputFile(degs[di].slug, years[k])
                  /\ written[first + k].content = res[years[k]]
            /\ \A k \in DOMAIN entries : entries[k] = <<years[n + k], res[years[n + k]]>>
            /\ acc = IndexOf(years, n)

(* C10 witness: the three years of a degree have been written *)
C10_Witness ==
    /\ pc = "write"
    /\ entries = <<>>
    /\ Cardinality(DOMAIN res) = 3
    /\ Len(written) >= 3

(* C11: extraction of one course never aborts the run. For every title and  *)
(* description block `end - 2` does not underflow (the run neither panics   *)
(* nor slices with a wrapped bound), the slice is empty whenever            *)
(* end - 2 <= start, and the extraction returns a description or an error   *)
(* value.                                                                   *)
C11_ExtractionNeverAborts ==
    ext.status \in {"ok", "err", "panic"} =>
        /\ ext.status \in {"ok", "err"}
        /\ ext.status = "ok" =>
               /\ ~ext.wrapped
               /\ ext.f >= BackOff
               /\ (ext.f - BackOff <= ext.i => ext.raw = "")

====
